---- MODULE Spec2Model ----
(***************************************************************************)
(* Terrain generator (russellw/terrain): the pipeline of                   *)
(* TerrainGenerator::generate, src/src/terrain.rs, and its stages          *)
(*   PlateSimulator    src/src/plate_tectonics.rs                          *)
(*   ClimateSimulator  src/src/climate.rs                                  *)
(*   assign_water_bodies  src/src/terrain.rs                               *)
(*   BiomeAssigner     src/src/biomes.rs                                   *)
(*   RiverGenerator    src/src/rivers.rs                                   *)
(*                                                                         *)
(* Numbers.  The f32 fields (elevation, temperature, rainfall, velocity,   *)
(* noise, flow volume) are fixed-point integers in thousandths: 2.0 is     *)
(* 2000.  FMul and FDiv round towards minus infinity to a thousandth.      *)
(*                                                                         *)
(* Seeded inputs.  StdRng::seed_from_u64(seed) and Perlin::new(seed) are   *)
(* deterministic functions of the seed that are not computed here: the     *)
(* plates the generator draws (rng) and the noise values Perlin::get       *)
(* returns (noise) are drawn in the initial state and stand for the seed.  *)
(* DefaultHasher::new() hashes with fixed keys; its value is the mixing    *)
(* function HashVal of the drawn hashKey.                                  *)
(*                                                                         *)
(* Scale.  The grid is W x H cells with W and H small.  generate_plates    *)
(* keeps continental centers 50 cells from the edges and needs width and   *)
(* height of 100 or more; that margin is not kept on the grid, and the     *)
(* centers come from a few sites of the small grid.  What the stages do    *)
(* with the true width and height is followed apart from the grid, in      *)
(* SpecSizes and SpecStages (dims).                                        *)
(*                                                                         *)
(* Specifications.                                                         *)
(*   Spec         generate(), one step per pass over the grid              *)
(*   SpecTwoRuns  generate() run twice on the same inputs                  *)
(*   SpecPlates   PlateSimulator::simulate over many plate layouts         *)
(*   SpecRivers   RiverGenerator::generate_rivers on grids with sources    *)
(*   SpecBiomes   BiomeAssigner::assign_biomes on grids with river cells   *)
(*   SpecSizes    the stages of generate() on grids of any width and height *)
(*   SpecStages   each stage entered on its own, on such grids              *)
(*   SpecFrames   generate() and the river stage, for the fields written    *)
(*   SpecClimate  ClimateSimulator::simulate on grids that have water       *)
(*   SpecTrace    generate_rivers, one step per iteration of trace_river    *)
(*   SpecTraceFair  the same on wet grids, with fairness, for termination   *)
(***************************************************************************)
EXTENDS Integers, Sequences, FiniteSets, TLC

VARIABLES
    wp,       \* TerrainGenerator.water_percentage, in percent
    rng,      \* the plates StdRng yields for this seed (generate_plates)
    noise,    \* the values Perlin::get yields for this seed, per cell
    hashKey,  \* selects the DefaultHasher function used for meander
    plates,   \* the plate list simulate() returns
    cells,    \* the grid: position <<x, y>> -> TerrainCell
    sources,  \* generate_rivers: the sources still to trace
    pc,       \* the stage that runs next
    cells2,   \* the grid of a second run of generate() on the same inputs,
              \* <<>> where a single run is followed
    dims,     \* TerrainGenerator.width and .height
    overflow_checks,  \* the build panics on integer overflow (debug) or
                      \* wraps (release)
    trace     \* trace_river: current cell, visited set, flow_volume and
              \* whether the loop still runs; <<>> outside a trace

vars == <<wp, rng, noise, hashKey, plates, cells, sources, pc, cells2,
          dims, overflow_checks, trace>>

----------------------------------------------------------------------------
(* Bounds of the model *)

\* grid width and height
W == 4
H == 4
\* plates drawn (the code draws 6..9, plate_tectonics.rs:24)
MaxPlates == 2

----------------------------------------------------------------------------
(* Fixed point *)

Scale == 1000

FMul(a, b) == (a * b) \div Scale
FDiv(a, b) == (a * Scale) \div b

Abs(a) == IF a < 0 THEN -a ELSE a
Min(a, b) == IF a < b THEN a ELSE b
Max(a, b) == IF a > b THEN a ELSE b

\* the grid f itself, computed in full once: without the comparison a cell
\* is computed again each time a later pass reads it
Grid(f) == IF f = f THEN f ELSE f

\* f32::INFINITY, above every distance and score of the model
INFINITY == 1000000000

\* the largest r in lo..hi with r * r <= n, by bisection (the midpoint is
\* bound as a value, so that it is computed once per level)
RECURSIVE SqrtSearch(_, _, _)
SqrtSearch(n, lo, hi) ==
    IF lo >= hi THEN lo
    ELSE CHOOSE r \in {IF mid * mid <= n THEN SqrtSearch(n, mid, hi)
                                        ELSE SqrtSearch(n, lo, mid - 1) :
                           mid \in {(lo + hi + 1) \div 2}} : TRUE

\* f32::sqrt of a value in thousandths, in thousandths
FSqrt(a) == SqrtSearch(a * Scale, 0, 46340)

----------------------------------------------------------------------------
(* Data model, src/src/main.rs *)

BiomeType == {"Ocean", "Desert", "Grassland", "Forest", "Tundra", "Mountain",
              "River", "Beach", "Rainforest"}

PlateType == {"Oceanic", "Continental"}

Pos == (0 .. W - 1) \X (0 .. H - 1)

\* the cells with all four and all eight neighbours on the grid:
\* for y in 1..height - 1 { for x in 1..width - 1
Interior == (1 .. W - 2) \X (1 .. H - 2)

InBounds(nx, ny) == nx >= 0 /\ nx < W /\ ny >= 0 /\ ny < H

\* for dy in -1..=1 { for dx in -1..=1 { if dx == 0 && dy == 0 { continue }
Offsets8 == << <<-1, -1>>, <<0, -1>>, <<1, -1>>,
               <<-1,  0>>,            <<1,  0>>,
               <<-1,  1>>, <<0,  1>>, <<1,  1>> >>

\* the in-bounds 8-neighbours of <<x, y>>, in the loops' order
Neighbors8(x, y) ==
    SelectSeq([i \in 1 .. 8 |-> <<x + Offsets8[i][1], y + Offsets8[i][2]>>],
              LAMBDA p : InBounds(p[1], p[2]))

\* the cell generate() fills the grid with
InitialCell ==
    [elevation |-> 0, temperature |-> 15000, rainfall |-> 0, plate_id |-> 0,
     is_water |-> FALSE, biome |-> "Grassland", has_river |-> FALSE]

InitialCells == [p \in Pos |-> InitialCell]

\* positions in row-major order: for y in 0..height { for x in 0..width
RowMajor == [i \in 1 .. W * H |-> <<(i - 1) % W, (i - 1) \div W>>]

----------------------------------------------------------------------------
(* PlateSimulator, src/src/plate_tectonics.rs *)

\* let continental_count = (count as f32 * 0.4).max(2.0) as usize;
continental_count(count) == Max((count * 4) \div 10, 2)

\* generate_plates: plate i is TectonicPlate { id: i, center, velocity,
\* plate_type }, Continental when i < continental_count.  rng holds the
\* centers, velocities and types drawn; age is not read by any stage.
generate_plates(draws) == draws

\* the scan with distance <= min_distance: the last nearest plate wins
RECURSIVE ScanPlatesLast(_, _, _, _, _, _)
ScanPlatesLast(ps, i, x, y, closest_plate, min_distance) ==
    IF i > Len(ps) THEN closest_plate
    ELSE LET dx == x * Scale - ps[i].center[1]
             dy == y * Scale - ps[i].center[2]
             distance == FSqrt(FMul(dx, dx) + FMul(dy, dy))
         IN  IF distance <= min_distance
             THEN ScanPlatesLast(ps, i + 1, x, y, ps[i].id, distance)
             ELSE ScanPlatesLast(ps, i + 1, x, y, closest_plate, min_distance)

\* the scan of assign_plate_ownership over plates[i..], carrying
\* closest_plate and min_distance
RECURSIVE ScanPlates(_, _, _, _, _, _)
ScanPlates(ps, i, x, y, closest_plate, min_distance) ==
    IF i > Len(ps) THEN closest_plate
    ELSE LET dx == x * Scale - ps[i].center[1]
             dy == y * Scale - ps[i].center[2]
             distance == FSqrt(FMul(dx, dx) + FMul(dy, dy))
         IN  IF distance < min_distance
             THEN ScanPlates(ps, i + 1, x, y, ps[i].id, distance)
             ELSE ScanPlates(ps, i + 1, x, y, closest_plate, min_distance)

assign_plate_ownership(cs, ps) ==
    Grid([p \in Pos |->
        [cs[p] EXCEPT !.plate_id = ScanPlates(ps, 1, p[1], p[2], 0, INFINITY)]])

\* the plate with id i (ids are 0-based, sequences 1-based)
PlateOf(ps, i) == ps[i + 1]

calculate_interaction_strength(plate1, plate2) ==
    LET vel_diff_x == plate1.velocity[1] - plate2.velocity[1]
        vel_diff_y == plate1.velocity[2] - plate2.velocity[2]
        relative_velocity ==
            FSqrt(FMul(vel_diff_x, vel_diff_x) + FMul(vel_diff_y, vel_diff_y))
    IN  CASE plate1.plate_type = "Continental" /\ plate2.plate_type = "Continental"
               -> FMul(relative_velocity, 800)
          [] plate1.plate_type = "Continental" /\ plate2.plate_type = "Oceanic"
               -> FMul(relative_velocity, 1200)
          [] plate1.plate_type = "Oceanic" /\ plate2.plate_type = "Continental"
               -> FMul(relative_velocity, 1200)
          [] plate1.plate_type = "Oceanic" /\ plate2.plate_type = "Oceanic"
               -> FMul(relative_velocity, 400)

\* the plate ids of the 4-neighbours of an interior cell:
\* [ (y-1, x), (y+1, x), (y, x-1), (y, x+1) ]
Neighbors4(cs, x, y) ==
    << cs[<<x, y - 1>>].plate_id, cs[<<x, y + 1>>].plate_id,
       cs[<<x - 1, y>>].plate_id, cs[<<x + 1, y>>].plate_id >>

RECURSIVE SumInteractions(_, _, _, _)
SumInteractions(ps, current_plate, neighbors, i) ==
    IF i > Len(neighbors) THEN 0
    ELSE (IF neighbors[i] # current_plate
          THEN calculate_interaction_strength(PlateOf(ps, current_plate),
                                              PlateOf(ps, neighbors[i]))
          ELSE 0)
         + SumInteractions(ps, current_plate, neighbors, i + 1)

simulate_plate_interactions(cs, ps) ==
    Grid([p \in Pos |->
        IF p \in Interior
        THEN [cs[p] EXCEPT !.elevation =
                 @ + SumInteractions(ps, cs[p].plate_id,
                                     Neighbors4(cs, p[1], p[2]), 1)]
        ELSE cs[p]])

\* self.noise.get(..) at cell p: nz holds the drawn values of the three
\* octaves of the base noise, one per column (nz.base), and of the mountain
\* and inland noise at the one cell where they are not zero (nz.peak)
PerlinBase(nz, p) == nz.base[p[1]]
PerlinMountain(nz, p) == IF p = nz.peak THEN nz.mountain ELSE 0
PerlinInland(nz, p) == IF p = nz.peak THEN nz.inland ELSE 0

generate_base_elevation(cs, nz) ==
    Grid([p \in Pos |->
        LET large_features == PerlinBase(nz, p).large
            medium_features == FMul(PerlinBase(nz, p).medium, 500)
            small_features == FMul(PerlinBase(nz, p).small, 250)
            combined_noise == large_features + medium_features + small_features
            base_elevation == Max(FMul(combined_noise, 300) + 400, 0)
        IN  [cs[p] EXCEPT !.elevation = base_elevation]])

is_boundary(cs, ps, x, y) ==
    LET current_plate == cs[<<x, y>>].plate_id
        current_plate_type == PlateOf(ps, current_plate).plate_type
        neighbors == Neighbors4(cs, x, y)
    IN  \E i \in 1 .. 4 :
            /\ neighbors[i] # current_plate
            /\ \/ current_plate_type = "Continental"
               \/ PlateOf(ps, neighbors[i]).plate_type = "Continental"

add_mountain_ranges(cs, ps, nz) ==
    Grid([p \in Pos |->
        IF p \in Interior
        THEN LET mountain_strength == PerlinMountain(nz, p)
                 boundary_boost ==
                     IF is_boundary(cs, ps, p[1], p[2]) /\ mountain_strength > 100
                     THEN FMul(mountain_strength - 100, 1500) ELSE 0
                 inland_mountain_noise == PerlinInland(nz, p)
                 inland_boost ==
                     IF /\ PlateOf(ps, cs[p].plate_id).plate_type = "Continental"
                        /\ inland_mountain_noise > 400
                     THEN FMul(inland_mountain_noise - 400, 800) ELSE 0
             IN  [cs[p] EXCEPT !.elevation = @ + boundary_boost + inland_boost]
        ELSE cs[p]])

\* PlateSimulator::simulate: the grid it leaves
simulate_plates(cs, draws, nz) ==
    LET ps == generate_plates(draws)
    IN  add_mountain_ranges(
            generate_base_elevation(
                simulate_plate_interactions(assign_plate_ownership(cs, ps), ps),
                nz),
            ps, nz)

----------------------------------------------------------------------------
(* ClimateSimulator, src/src/climate.rs *)

calculate_temperature(cs) ==
    Grid([p \in Pos |->
        LET latitude_factor == Abs(FDiv(p[2] * Scale, H * Scale) - 500)
            elevation == cs[p].elevation
            base_temp == 30000 - FMul(latitude_factor, 40000)
            elevation_cooling == FMul(elevation, 6500)
        IN  [cs[p] EXCEPT !.temperature =
                 Max(base_temp - elevation_cooling, -20000)]])

\* f32::clamp(lo, hi)
Clamp(a, lo, hi) == IF a < lo THEN lo ELSE IF a > hi THEN hi ELSE a

calculate_atmospheric_moisture(x, y, cs) ==
    LET cell == cs[<<x, y>>]
    IN  IF cell.is_water
        THEN LET temp_factor == FDiv(cell.temperature + 20000, 50000)
             IN  FMul(Clamp(temp_factor, 100, 1000), 10000)
        ELSE FMul(cell.rainfall, 100)

transfer_moisture(to_x, to_y, amount, cs) ==
    IF to_x < W /\ to_y < H
    THEN [cs EXCEPT ![<<to_x, to_y>>].rainfall = @ + amount]
    ELSE cs

wind_direction(y) ==
    LET latitude == FDiv(y * Scale, H * Scale)
    IN  IF latitude < 300 THEN 1 ELSE IF latitude < 600 THEN -1 ELSE 1

\* the inner loop of simulate_prevailing_winds from column x on:
\* for x in 0..self.width, whatever the wind direction
RECURSIVE WindRow(_, _, _)
WindRow(cs, y, x) ==
    IF x >= W THEN cs
    ELSE LET moisture == calculate_atmospheric_moisture(x, y, cs)
             next ==
                 IF wind_direction(y) > 0 /\ x < W - 1
                 THEN transfer_moisture(x + 1, y, FMul(moisture, 100), cs)
                 ELSE IF wind_direction(y) < 0 /\ x > 0
                 THEN transfer_moisture(x - 1, y, FMul(moisture, 100), cs)
                 ELSE cs
         IN  WindRow(next, y, x + 1)

RECURSIVE WindRows(_, _)
WindRows(cs, y) == IF y >= H THEN cs ELSE WindRows(WindRow(cs, y, 0), y + 1)

simulate_prevailing_winds(cs) == WindRows(cs, 0)

count_nearby_water(x, y, cs) ==
    LET ns == Neighbors8(x, y)
    IN  Cardinality({i \in 1 .. Len(ns) : cs[ns[i]].is_water})

calculate_convection_rainfall(x, y, cs) ==
    LET cell == cs[<<x, y>>]
    IN  IF cell.temperature > 25000
        THEN LET heat_factor == FDiv(cell.temperature - 25000, 10000)
                 nearby_water == FDiv(count_nearby_water(x, y, cs) * Scale, 8000)
             IN  FMul(FMul(heat_factor, nearby_water), 3000)
        ELSE 0

calculate_rainfall(cs) ==
    Grid([p \in Pos |->
        LET convection_rainfall == calculate_convection_rainfall(p[1], p[2], cs)
            cell == cs[p]
            elevation_factor == Max(1000 - Min(cell.elevation, 1000), 0)
            temperature_factor ==
                IF cell.temperature > 0 /\ cell.temperature < 35000
                THEN 1000 - FDiv(Abs(cell.temperature - 17500), 17500)
                ELSE 100
            added == FMul(FMul(elevation_factor, temperature_factor), 5000)
                     + convection_rainfall
        IN  IF ~cell.is_water
            THEN [cell EXCEPT !.rainfall = Min(@ + added, 20000)]
            ELSE cell])

\* the shadow loop without its floor: rainfall -= reduction, no .max(0.0)
RECURSIVE ShadowFromUnfloored(_, _, _, _, _)
ShadowFromUnfloored(cs, y, x, shadow_x, shadow_strength) ==
    IF shadow_x >= Min(W, x + 5) THEN cs
    ELSE LET distance_factor == FDiv(Scale, (shadow_x - x) * Scale)
             reduction == FMul(shadow_strength, distance_factor)
             next == [cs EXCEPT ![<<shadow_x, y>>].rainfall = @ - reduction]
         IN  ShadowFromUnfloored(next, y, x, shadow_x + 1, shadow_strength)

\* the shadow loop: for shadow_x in (x + 1)..self.width.min(x + 5)
RECURSIVE ShadowFrom(_, _, _, _, _)
ShadowFrom(cs, y, x, shadow_x, shadow_strength) ==
    IF shadow_x >= Min(W, x + 5) THEN cs
    ELSE LET distance_factor == FDiv(Scale, (shadow_x - x) * Scale)
             reduction == FMul(shadow_strength, distance_factor)
             next == [cs EXCEPT ![<<shadow_x, y>>].rainfall = Max(@ - reduction, 0)]
         IN  ShadowFrom(next, y, x, shadow_x + 1, shadow_strength)

\* for x in 1..self.width, in row y
RECURSIVE ShadowRow(_, _, _)
ShadowRow(cs, y, x) ==
    IF x >= W THEN cs
    ELSE LET current_elevation == cs[<<x, y>>].elevation
             prev_elevation == cs[<<x - 1, y>>].elevation
             next ==
                 IF current_elevation > prev_elevation + 300
                 THEN ShadowFrom(cs, y, x, x + 1,
                                 FMul(current_elevation - prev_elevation, 500))
                 ELSE cs
         IN  ShadowRow(next, y, x + 1)

RECURSIVE ShadowRows(_, _)
ShadowRows(cs, y) == IF y >= H THEN cs ELSE ShadowRows(ShadowRow(cs, y, 1), y + 1)

apply_rain_shadows(cs) == ShadowRows(cs, 0)

\* ClimateSimulator::simulate
simulate_climate(cs) ==
    apply_rain_shadows(
        calculate_rainfall(simulate_prevailing_winds(calculate_temperature(cs))))

----------------------------------------------------------------------------
(* TerrainGenerator::assign_water_bodies, src/src/terrain.rs *)

\* elevations.sort_by(..)[k]: the value with at most k elevations below it
\* and more than k elevations at or below it (k is 0-based)
SortedElevationAt(cs, k) ==
    CHOOSE v \in {cs[p].elevation : p \in Pos} :
        /\ Cardinality({p \in Pos : cs[p].elevation < v}) <= k
        /\ Cardinality({p \in Pos : cs[p].elevation <= v}) > k

water_threshold(cs, water_percentage) ==
    LET len == Cardinality(Pos)
        water_threshold_index == (len * water_percentage) \div 100
    IN  SortedElevationAt(cs, Min(water_threshold_index, len - 1))

\* the marking loop with a strict comparison: elevation < water_threshold
assign_water_bodies_strict(cs, water_percentage) ==
    Grid([p \in Pos |->
        IF cs[p].elevation < water_threshold(cs, water_percentage)
        THEN [cs[p] EXCEPT !.is_water = TRUE, !.biome = "Ocean"]
        ELSE cs[p]])

assign_water_bodies(cs, water_percentage) ==
    Grid([p \in Pos |->
        IF cs[p].elevation <= water_threshold(cs, water_percentage)
        THEN [cs[p] EXCEPT !.is_water = TRUE, !.biome = "Ocean"]
        ELSE cs[p]])

----------------------------------------------------------------------------
(* BiomeAssigner, src/src/biomes.rs *)

determine_biome(cell) ==
    LET temp == cell.temperature
        rainfall == cell.rainfall
        elevation == cell.elevation
    IN  IF elevation > 2000 THEN "Mountain"
        ELSE IF elevation > 1500 /\ temp < 5000 THEN "Tundra"
        ELSE IF temp < -5000 THEN "Tundra"
        ELSE IF rainfall < 1500
             THEN (IF temp > 25000 THEN "Desert"
                   ELSE IF temp > 10000 THEN "Grassland"
                   ELSE "Tundra")
        ELSE IF rainfall > 12000 /\ temp > 22000 THEN "Rainforest"
        ELSE IF rainfall > 6000 /\ temp > 5000 THEN "Forest"
        ELSE IF rainfall > 3000 THEN "Grassland"
        ELSE IF temp > 15000 THEN "Grassland"
        ELSE "Tundra"

\* the first pass of assign_biomes
classify_biomes(cs) ==
    Grid([p \in Pos |->
        IF cs[p].is_water
        THEN [cs[p] EXCEPT !.biome = "Ocean"]
        ELSE [cs[p] EXCEPT !.biome = determine_biome(cs[p])]])

get_neighbor_biomes(x, y, cs) ==
    LET ns == Neighbors8(x, y)
    IN  [i \in 1 .. Len(ns) |-> cs[ns[i]].biome]

\* counts[biome] of most_common_biome
BiomeCount(biomes, b) == Cardinality({i \in 1 .. Len(biomes) : biomes[i] = b})

\* most_common_biome: the biomes it can return as Some(biome); the empty set
\* is None.  counts is a HashMap with the default RandomState, whose
\* iteration order differs from one map to the next, and max_by_key keeps
\* the last maximum met: among the non-Ocean biomes of greatest count any
\* one can be the result.
most_common_biome(biomes) ==
    LET present == {biomes[i] : i \in 1 .. Len(biomes)} \ {"Ocean"}
    IN  {b \in present :
            \A c \in present : BiomeCount(biomes, c) <= BiomeCount(biomes, b)}

\* a smoothing loop that already gives way to 3 differing neighbours
SmoothChoicesEager(cs, p) ==
    IF p \in Interior /\ ~cs[p].is_water /\ ~cs[p].has_river
    THEN LET neighbors == get_neighbor_biomes(p[1], p[2], cs)
             current_biome == cs[p].biome
             different_neighbors ==
                 Cardinality({i \in 1 .. Len(neighbors) :
                     neighbors[i] # current_biome /\ neighbors[i] # "Ocean"})
             common == most_common_biome(neighbors) \ {"Ocean"}
         IN  IF different_neighbors >= 3 /\ common # {}
             THEN common
             ELSE {current_biome}
    ELSE {cs[p].biome}

\* the values new_biomes[y][x] can take after the smoothing loop
SmoothChoices(cs, p) ==
    IF p \in Interior /\ ~cs[p].is_water /\ ~cs[p].has_river
    THEN LET neighbors == get_neighbor_biomes(p[1], p[2], cs)
             current_biome == cs[p].biome
             different_neighbors ==
                 Cardinality({i \in 1 .. Len(neighbors) :
                     neighbors[i] # current_biome /\ neighbors[i] # "Ocean"})
             common == most_common_biome(neighbors) \ {"Ocean"}
         IN  IF different_neighbors >= 4 /\ common # {}
             THEN common
             ELSE {current_biome}
    ELSE {cs[p].biome}

\* the new_biomes grids the smoothing loop can build, positions RowMajor[i..]
\* still to choose
RECURSIVE NewBiomes(_, _, _)
NewBiomes(cs, acc, i) ==
    IF i > Len(RowMajor) THEN acc
    ELSE NewBiomes(cs,
                   UNION {{[q \in Pos |-> IF q = RowMajor[i] THEN b ELSE nb[q]] :
                              nb \in acc} : b \in SmoothChoices(cs, RowMajor[i])},
                   i + 1)

\* "Apply smoothed biomes (but preserve rivers)"
apply_new_biomes(cs, new_biomes) ==
    Grid([p \in Pos |->
        IF ~cs[p].is_water /\ ~cs[p].has_river
        THEN [cs[p] EXCEPT !.biome = new_biomes[p]]
        ELSE cs[p]])

\* smooth_biome_transitions: the grids it can leave
smooth_biome_transitions(cs) ==
    {apply_new_biomes(cs, nb) :
        nb \in NewBiomes(cs, {[p \in Pos |-> cs[p].biome]}, 1)}

is_adjacent_to_water(x, y, cs) ==
    LET ns == Neighbors8(x, y)
    IN  \E i \in 1 .. Len(ns) : cs[ns[i]].is_water

\* add_beaches without its test of !cells[y][x].is_water
add_beaches_on_water(cs) ==
    Grid([p \in Pos |->
        IF cs[p].elevation < 300 /\ is_adjacent_to_water(p[1], p[2], cs)
        THEN [cs[p] EXCEPT !.biome = "Beach"]
        ELSE cs[p]])

add_beaches(cs) ==
    Grid([p \in Pos |->
        IF /\ ~cs[p].is_water
           /\ cs[p].elevation < 300
           /\ is_adjacent_to_water(p[1], p[2], cs)
        THEN [cs[p] EXCEPT !.biome = "Beach"]
        ELSE cs[p]])

enhance_coastal_features(cs) ==
    Grid([p \in Pos |->
        IF /\ ~cs[p].is_water
           /\ cs[p].elevation < 400
           /\ is_adjacent_to_water(p[1], p[2], cs)
        THEN LET temp == cs[p].temperature
                 rainfall == cs[p].rainfall
             IN  IF temp > 20000 /\ rainfall < 3000
                 THEN [cs[p] EXCEPT !.biome = "Beach"]
                 ELSE IF temp > 15000 /\ rainfall > 8000
                 THEN [cs[p] EXCEPT !.biome = "Forest"]
                 ELSE [cs[p] EXCEPT !.biome = "Beach"]
        ELSE cs[p]])

----------------------------------------------------------------------------
(* RiverGenerator, src/src/rivers.rs *)

get_average_neighbor_elevation(x, y, cs) ==
    LET ns == Neighbors8(x, y)
        Total[i \in 0 .. Len(ns)] ==
            IF i = 0 THEN 0 ELSE Total[i - 1] + cs[ns[i]].elevation
    IN  Total[Len(ns)] \div Len(ns)

is_river_source(cs, p) ==
    /\ p \in Interior
    /\ ~cs[p].is_water
    /\ cs[p].elevation > 1000
    /\ cs[p].rainfall > 6000
    /\ cs[p].elevation > get_average_neighbor_elevation(p[1], p[2], cs) + 200

\* the sources, in the order of the row-major scan
find_river_sources(cs) == SelectSeq(RowMajor, LAMBDA p : is_river_source(cs, p))

count_tributary_flow(x, y, cs) ==
    LET ns == Neighbors8(x, y)
    IN  Cardinality({i \in 1 .. Len(ns) :
            /\ cs[ns[i]].has_river
            /\ cs[ns[i]].elevation > cs[<<x, y>>].elevation}) * Scale

\* hasher.finish() as f32 / u64::MAX as f32 for the key (x, y, nx, ny): a
\* value in 0..1 fixed by the key and by the hasher (hk)
HashVal(hk, x, y, nx, ny) ==
    ((x * 7 + y * 13 + nx * 31 + ny * 57 + hk) * 389) % 1001

meander_factor(hk, x, y, nx, ny, flow_volume) ==
    IF flow_volume > 2000
    THEN FMul(HashVal(hk, x, y, nx, ny) - 500, 300)
    ELSE 0

\* a scan that also accepts a neighbour on the level of the current cell
RECURSIVE ScanFlowLevel(_, _, _, _, _, _, _, _, _)
ScanFlowLevel(hk, x, y, cs, flow_volume, ns, i, best_score, best_pos) ==
    IF i > Len(ns) THEN best_pos
    ELSE LET nx == ns[i][1]
             ny == ns[i][2]
             current_elevation == cs[<<x, y>>].elevation
             neighbor_elevation == cs[ns[i]].elevation
             elevation_drop == current_elevation - neighbor_elevation
             distance == FSqrt(((nx - x) * (nx - x) + (ny - y) * (ny - y)) * Scale)
             score == FDiv(distance, elevation_drop + 100)
                      - meander_factor(hk, x, y, nx, ny, flow_volume)
         IN  IF neighbor_elevation <= current_elevation /\ score < best_score
             THEN ScanFlowLevel(hk, x, y, cs, flow_volume, ns, i + 1, score,
                                <<ns[i]>>)
             ELSE ScanFlowLevel(hk, x, y, cs, flow_volume, ns, i + 1, best_score,
                                best_pos)

\* the scan of find_best_flow_direction over the neighbours ns[i..], carrying
\* best_score and best_pos (<<>> is None, <<pos>> is Some(pos))
RECURSIVE ScanFlow(_, _, _, _, _, _, _, _, _)
ScanFlow(hk, x, y, cs, flow_volume, ns, i, best_score, best_pos) ==
    IF i > Len(ns) THEN best_pos
    ELSE LET nx == ns[i][1]
             ny == ns[i][2]
             current_elevation == cs[<<x, y>>].elevation
             neighbor_elevation == cs[ns[i]].elevation
             elevation_drop == current_elevation - neighbor_elevation
             distance == FSqrt(((nx - x) * (nx - x) + (ny - y) * (ny - y)) * Scale)
             score == FDiv(distance, elevation_drop + 100)
                      - meander_factor(hk, x, y, nx, ny, flow_volume)
         IN  IF neighbor_elevation < current_elevation /\ score < best_score
             THEN ScanFlow(hk, x, y, cs, flow_volume, ns, i + 1, score, <<ns[i]>>)
             ELSE ScanFlow(hk, x, y, cs, flow_volume, ns, i + 1, best_score, best_pos)

\* (the grid, the flow volume and the neighbours are bound as values for
\* the scan)
find_best_flow_direction(hk, x, y, cs, flow_volume) ==
    CHOOSE best \in
        {ScanFlow(hk, x, y, grid, flow, ns, 1, INFINITY, <<>>) :
             grid \in {cs}, flow \in {flow_volume}, ns \in {Neighbors8(x, y)}} :
            TRUE

\* the cap on visited cells of trace_river
MaxVisited == 2000

\* a marking that also carves the bed, lowering the elevation
mark_river_eroding(cs, p) ==
    [cs EXCEPT ![p].has_river = TRUE, ![p].biome = "River",
               ![p].elevation = Max(cs[p].elevation - 100, 0)]

\* cells[current_y][current_x].has_river = true; cells[..].biome = River
mark_river(cs, p) == [cs EXCEPT ![p].has_river = TRUE, ![p].biome = "River"]

\* an iteration that sets has_river and leaves the biome as it is
TraceIterationUnpainted(hk, t) ==
    LET cur == t.current
    IN  IF cur \in t.visited THEN [t EXCEPT !.running = FALSE]
        ELSE LET visited == t.visited \cup {cur}
             IN  IF t.cells[cur].is_water
                 THEN [t EXCEPT !.visited = visited, !.running = FALSE]
                 ELSE LET marked ==
                              IF t.flow_volume > 500
                              THEN [t.cells EXCEPT ![cur].has_river = TRUE]
                              ELSE t.cells
                          flow == t.flow_volume
                                  + FMul(marked[cur].rainfall, 100)
                                  + FMul(count_tributary_flow(cur[1], cur[2], marked),
                                         200)
                          best == find_best_flow_direction(hk, cur[1], cur[2],
                                                           marked, flow)
                      IN  IF best = <<>>
                          THEN [cells |-> marked, current |-> cur,
                                visited |-> visited, flow_volume |-> flow,
                                running |-> FALSE]
                          ELSE [cells |-> marked, current |-> best[1],
                                visited |-> visited, flow_volume |-> flow,
                                running |-> Cardinality(visited) <= MaxVisited]

\* one iteration of the loop of trace_river on the loop state
\* t = [cells, current, visited, flow_volume, running]
TraceIteration(hk, t) ==
    LET cur == t.current
    IN  IF cur \in t.visited THEN [t EXCEPT !.running = FALSE]
        ELSE LET visited == t.visited \cup {cur}
             IN  IF t.cells[cur].is_water
                 THEN [t EXCEPT !.visited = visited, !.running = FALSE]
                 ELSE LET marked ==
                              IF t.flow_volume > 500
                              THEN mark_river(t.cells, cur)
                              ELSE t.cells
                          flow == t.flow_volume
                                  + FMul(marked[cur].rainfall, 100)
                                  + FMul(count_tributary_flow(cur[1], cur[2], marked),
                                         200)
                          best == find_best_flow_direction(hk, cur[1], cur[2],
                                                           marked, flow)
                      IN  IF best = <<>>
                          THEN [cells |-> marked, current |-> cur,
                                visited |-> visited, flow_volume |-> flow,
                                running |-> FALSE]
                          ELSE [cells |-> marked, current |-> best[1],
                                visited |-> visited, flow_volume |-> flow,
                                running |-> Cardinality(visited) <= MaxVisited]

RECURSIVE TraceLoop(_, _)
TraceLoop(hk, t) == IF t.running THEN TraceLoop(hk, TraceIteration(hk, t)) ELSE t

\* trace_river: the grid it leaves
trace_river(hk, start, cs) ==
    TraceLoop(hk, [cells |-> cs, current |-> start, visited |-> {},
                   flow_volume |-> 1000, running |-> TRUE]).cells

\* for source in sources { self.trace_river(..) }
RECURSIVE TraceAll(_, _, _, _)
TraceAll(hk, srcs, i, cs) ==
    IF i > Len(srcs) THEN cs
    ELSE TraceAll(hk, srcs, i + 1, trace_river(hk, srcs[i], cs))

generate_rivers(hk, cs) == TraceAll(hk, find_river_sources(cs), 1, cs)

----------------------------------------------------------------------------
(* The inputs drawn *)

\* water_percentage: none, half, all
WaterPercentages == {0, 50, 100}

\* Perlin::get for the three octaves of generate_base_elevation: all at the
\* bottom of the noise range, the large or the small octave alone at the
\* bottom, all in the middle, all at the top
Trough == [large |-> -1000, medium |-> -1000, small |-> -1000]
Dip    == [large |-> -1000, medium |-> 0, small |-> 0]
Ripple == [large |-> 0, medium |-> 0, small |-> -1000]
Level  == [large |-> 0, medium |-> 0, small |-> 0]
Crest  == [large |-> 1000, medium |-> 1000, small |-> 1000]

\* the base noise: one value per column of the grid
BaseFields == [0 .. W - 1 -> {Trough, Dip, Ripple, Level, Crest}]

\* the mountain and inland noise: zero, or at their top at one cell of the
\* first interior row
PeakFields ==
    {[peak |-> q, mountain |-> 1000, inland |-> 1000] :
        q \in {r \in Interior : r[2] = 1}}
    \cup {[peak |-> <<0, 0>>, mountain |-> 0, inland |-> 0]}

NoiseFields ==
    {[base |-> b, peak |-> k.peak, mountain |-> k.mountain, inland |-> k.inland] :
        b \in BaseFields, k \in PeakFields}

\* the plate lists generate_plates(n) can draw with centers and velocities
\* from the given sets: plates below continental_count are Continental
PlateDraws(n, centers, velocities) ==
    {[i \in 1 .. n |-> [id |-> i - 1, center |-> f[i].center,
                        velocity |-> f[i].velocity,
                        plate_type |-> f[i].plate_type]] :
        f \in {g \in [1 .. n -> [center : centers, velocity : velocities,
                                 plate_type : PlateType]] :
                  \A i \in 1 .. n :
                      i - 1 < continental_count(n)
                          => g[i].plate_type = "Continental"}}

Origin == <<0, 0>>
FarCorner == <<(W - 1) * Scale, (H - 1) * Scale>>
EastCorner == <<(W - 1) * Scale, 0>>
Inland == <<1500, 1000>>
Sites == {Origin, FarCorner, EastCorner, Inland}
Velocities == {<<1000, 0>>, <<-500, 1200>>}

\* the plate lists of the runs of generate(): every plate at the origin but
\* the last, which is at the far corner; the plates that are free to be of
\* either type are Oceanic
GenDraws ==
    {d \in PlateDraws(MaxPlates, {Origin, FarCorner}, {<<1000, 0>>}) :
        /\ \A i \in 1 .. MaxPlates - 1 : d[i].center = Origin
        /\ d[MaxPlates].center = FarCorner
        /\ \A i \in 1 .. MaxPlates :
               i - 1 >= continental_count(MaxPlates)
                   => d[i].plate_type = "Oceanic"}

----------------------------------------------------------------------------
(* TerrainGenerator::generate, src/src/terrain.rs: the pipeline.  Each pass   *)
(* over the grid is one step.  With cells2 a grid, a second run of generate() *)
(* on the same inputs is followed pass by pass beside the first.              *)

inputs == <<wp, rng, noise, hashKey, dims, overflow_checks>>

Init ==
    /\ wp \in WaterPercentages
    /\ rng \in GenDraws
    /\ noise \in NoiseFields
    /\ hashKey = 0
    /\ plates = <<>>
    /\ cells = InitialCells
    /\ sources = <<>>
    /\ pc = "generate_plates"
    /\ cells2 = <<>>
    /\ dims = [width |-> W, height |-> H]
    /\ overflow_checks = TRUE
    /\ trace = <<>>

\* PlateSimulator::simulate
GeneratePlates ==
    /\ pc = "generate_plates"
    /\ plates' = generate_plates(rng)
    /\ pc' = "assign_plate_ownership"
    /\ UNCHANGED <<inputs, trace, cells, sources, cells2>>

AssignPlateOwnership ==
    /\ pc = "assign_plate_ownership"
    /\ cells' = assign_plate_ownership(cells, plates)
    /\ cells2' = IF cells2 = <<>> THEN <<>>
                 ELSE assign_plate_ownership(cells2, plates)
    /\ pc' = "simulate_plate_interactions"
    /\ UNCHANGED <<inputs, trace, plates, sources>>

SimulatePlateInteractions ==
    /\ pc = "simulate_plate_interactions"
    /\ cells' = simulate_plate_interactions(cells, plates)
    /\ cells2' = IF cells2 = <<>> THEN <<>>
                 ELSE simulate_plate_interactions(cells2, plates)
    /\ pc' = "generate_base_elevation"
    /\ UNCHANGED <<inputs, trace, plates, sources>>

GenerateBaseElevation ==
    /\ pc = "generate_base_elevation"
    /\ cells' = generate_base_elevation(cells, noise)
    /\ cells2' = IF cells2 = <<>> THEN <<>>
                 ELSE generate_base_elevation(cells2, noise)
    /\ pc' = "add_mountain_ranges"
    /\ UNCHANGED <<inputs, trace, plates, sources>>

AddMountainRanges ==
    /\ pc = "add_mountain_ranges"
    /\ cells' = add_mountain_ranges(cells, plates, noise)
    /\ cells2' = IF cells2 = <<>> THEN <<>>
                 ELSE add_mountain_ranges(cells2, plates, noise)
    /\ pc' = "calculate_temperature"
    /\ UNCHANGED <<inputs, trace, plates, sources>>

\* ClimateSimulator::simulate
CalculateTemperature ==
    /\ pc = "calculate_temperature"
    /\ cells' = calculate_temperature(cells)
    /\ cells2' = IF cells2 = <<>> THEN <<>>
                 ELSE calculate_temperature(cells2)
    /\ pc' = "simulate_prevailing_winds"
    /\ UNCHANGED <<inputs, trace, plates, sources>>

SimulatePrevailingWinds ==
    /\ pc = "simulate_prevailing_winds"
    /\ cells' = simulate_prevailing_winds(cells)
    /\ cells2' = IF cells2 = <<>> THEN <<>>
                 ELSE simulate_prevailing_winds(cells2)
    /\ pc' = "calculate_rainfall"
    /\ UNCHANGED <<inputs, trace, plates, sources>>

CalculateRainfall ==
    /\ pc = "calculate_rainfall"
    /\ cells' = calculate_rainfall(cells)
    /\ cells2' = IF cells2 = <<>> THEN <<>>
                 ELSE calculate_rainfall(cells2)
    /\ pc' = "apply_rain_shadows"
    /\ UNCHANGED <<inputs, trace, plates, sources>>

ApplyRainShadows ==
    /\ pc = "apply_rain_shadows"
    /\ cells' = apply_rain_shadows(cells)
    /\ cells2' = IF cells2 = <<>> THEN <<>>
                 ELSE apply_rain_shadows(cells2)
    /\ pc' = "assign_water_bodies"
    /\ UNCHANGED <<inputs, trace, plates, sources>>

\* self.assign_water_bodies(&mut cells);
AssignWaterBodies ==
    /\ pc = "assign_water_bodies"
    /\ cells' = assign_water_bodies(cells, wp)
    /\ cells2' = IF cells2 = <<>> THEN <<>>
                 ELSE assign_water_bodies(cells2, wp)
    /\ pc' = "classify_biomes"
    /\ UNCHANGED <<inputs, trace, plates, sources>>

\* BiomeAssigner::assign_biomes: the first pass
ClassifyBiomes ==
    /\ pc = "classify_biomes"
    /\ cells' = classify_biomes(cells)
    /\ cells2' = IF cells2 = <<>> THEN <<>>
                 ELSE classify_biomes(cells2)
    /\ pc' = "smooth_biome_transitions"
    /\ UNCHANGED <<inputs, trace, plates, sources>>

SmoothBiomeTransitions ==
    /\ pc = "smooth_biome_transitions"
    /\ cells' \in smooth_biome_transitions(cells)
    /\ cells2' \in IF cells2 = <<>> THEN {<<>>} ELSE smooth_biome_transitions(cells2)
    /\ pc' = "add_beaches"
    /\ UNCHANGED <<inputs, trace, plates, sources>>

AddBeaches ==
    /\ pc = "add_beaches"
    /\ cells' = add_beaches(cells)
    /\ cells2' = IF cells2 = <<>> THEN <<>>
                 ELSE add_beaches(cells2)
    /\ pc' = "enhance_coastal_features"
    /\ UNCHANGED <<inputs, trace, plates, sources>>

EnhanceCoastalFeatures ==
    /\ pc = "enhance_coastal_features"
    /\ cells' = enhance_coastal_features(cells)
    /\ cells2' = IF cells2 = <<>> THEN <<>>
                 ELSE enhance_coastal_features(cells2)
    /\ pc' = "generate_rivers"
    /\ UNCHANGED <<inputs, trace, plates, sources>>

\* river_gen.generate_rivers(&mut cells); and the TerrainData is returned
GenerateRivers ==
    /\ pc = "generate_rivers"
    /\ cells' = generate_rivers(hashKey, cells)
    /\ cells2' = IF cells2 = <<>> THEN <<>>
                 ELSE generate_rivers(hashKey, cells2)
    /\ pc' = "done"
    /\ UNCHANGED <<inputs, trace, plates, sources>>

Next ==
    \/ GeneratePlates
    \/ AssignPlateOwnership
    \/ SimulatePlateInteractions
    \/ GenerateBaseElevation
    \/ AddMountainRanges
    \/ CalculateTemperature
    \/ SimulatePrevailingWinds
    \/ CalculateRainfall
    \/ ApplyRainShadows
    \/ AssignWaterBodies
    \/ ClassifyBiomes
    \/ SmoothBiomeTransitions
    \/ AddBeaches
    \/ EnhanceCoastalFeatures
    \/ GenerateRivers

Spec == Init /\ [][Next]_vars

----------------------------------------------------------------------------
(* Properties of the pipeline *)

\* the stages that have run
AfterClimate ==
    pc \in {"assign_water_bodies", "classify_biomes", "smooth_biome_transitions",
            "add_beaches", "enhance_coastal_features", "generate_rivers",
            "find_river_sources", "trace_river", "done"}
AfterWaterBodies == AfterClimate /\ pc # "assign_water_bodies"
Final == pc = "done"

\* C2: from the state water thresholding leaves on (through the base
\* classification, smoothing, both coastal passes and the river stage, to the
\* final grid) a cell is water exactly when its biome is Ocean
WaterIffOcean ==
    AfterWaterBodies =>
        \A p \in Pos : cells[p].is_water <=> cells[p].biome = "Ocean"

\* a final grid with water, and land on its shore that the coastal passes
\* made Beach
CoastWithBeach ==
    /\ Final
    /\ \E p \in Pos : cells[p].is_water
    /\ \E p \in Pos : ~cells[p].is_water /\ cells[p].biome = "Beach"

\* C5: after the climate stage and in every later state, the final grid
\* included, the rainfall of every cell is between 0 and 20
RainfallBounds ==
    AfterClimate =>
        \A p \in Pos : cells[p].rainfall >= 0 /\ cells[p].rainfall <= 20000

\* a final grid where a rain shadow took all the rain of a cell below
\* elevation 1.0, which calculate_rainfall had given some
RainShadowAtFloor ==
    /\ Final
    /\ \E p \in Pos :
           /\ cells[p].elevation < 1000
           /\ cells[p].rainfall = 0
           /\ p[1] > 0
           /\ \E x \in 1 .. p[1] :
                  cells[<<x, p[2]>>].elevation > cells[<<x - 1, p[2]>>].elevation + 300

\* C6: in the final grid a cell above elevation 2.0 that is neither water nor
\* a river cell has biome Mountain
MountainAboveThreshold ==
    Final =>
        \A p \in Pos :
            (cells[p].elevation > 2000 /\ ~cells[p].is_water /\ ~cells[p].has_river)
                => cells[p].biome = "Mountain"

\* C8: with water_percentage = 0 the final grid has no water cell and no
\* Ocean cell
NoWaterAtZeroPercent ==
    (wp = 0 /\ Final) =>
        \A p \in Pos : ~cells[p].is_water /\ cells[p].biome # "Ocean"

\* C9: with water_percentage = 100 every cell of the final grid is water with
\* biome Ocean and none is a river cell
AllWaterAtHundredPercent ==
    (wp = 100 /\ Final) =>
        \A p \in Pos :
            cells[p].is_water /\ cells[p].biome = "Ocean" /\ ~cells[p].has_river

\* a final grid of a run with water_percentage = 100 whose cells are at three
\* elevations or more, one of them above the river source threshold
HundredPercentOverRelief ==
    /\ wp = 100
    /\ Final
    /\ Cardinality({cells[p].elevation : p \in Pos}) >= 3
    /\ \E p \in Interior : cells[p].elevation > 1000

----------------------------------------------------------------------------
(* PlateSimulator::simulate on its own, over plate centers drawn from Sites *)

InitPlates ==
    /\ wp = 0
    /\ rng \in PlateDraws(MaxPlates, Sites, Velocities)
    /\ noise \in {n \in NoiseFields : \A x \in 0 .. W - 1 : n.base[x] = Level}
    /\ hashKey = 0
    /\ plates = <<>>
    /\ cells = InitialCells
    /\ sources = <<>>
    /\ pc = "generate_plates"
    /\ cells2 = <<>>
    /\ dims = [width |-> W, height |-> H]
    /\ overflow_checks = TRUE
    /\ trace = <<>>

NextPlates ==
    \/ GeneratePlates
    \/ AssignPlateOwnership
    \/ SimulatePlateInteractions
    \/ GenerateBaseElevation
    \/ AddMountainRanges

SpecPlates == InitPlates /\ [][NextPlates]_vars

\* plate ownership has been assigned
AfterOwnership == plates # <<>> /\ pc # "assign_plate_ownership"

\* the square of the Euclidean distance from cell p to the center of plate
\* pl, exact in millionths
SquaredDistance(pl, p) ==
    (p[1] * Scale - pl.center[1]) * (p[1] * Scale - pl.center[1])
    + (p[2] * Scale - pl.center[2]) * (p[2] * Scale - pl.center[2])

\* C10: after plate ownership assignment the plate_id of every cell is in
\* [0, plate_count), no center is strictly closer to the cell than the
\* center of the owning plate, and of the plates whose centers are equally
\* near the owner is the one of lowest id
NearestPlateOwns ==
    AfterOwnership =>
        \A p \in Pos :
            /\ cells[p].plate_id \in 0 .. Len(plates) - 1
            /\ \A i \in 1 .. Len(plates) :
                   LET own == SquaredDistance(PlateOf(plates, cells[p].plate_id), p)
                       other == SquaredDistance(plates[i], p)
                   IN  /\ other >= own
                       /\ other = own => cells[p].plate_id <= plates[i].id

\* ownership assigned where some cell is equally near two distinct centers
\* and nearer to them than to any other, and some cell is owned by a plate
\* other than plate 0
OwnershipWithTie ==
    /\ AfterOwnership
    /\ \E p \in Pos : cells[p].plate_id > 0
    /\ \E p \in Pos : \E i, j \in 1 .. Len(plates) :
           /\ i < j
           /\ plates[i].center # plates[j].center
           /\ SquaredDistance(plates[i], p) = SquaredDistance(plates[j], p)
           /\ \A k \in 1 .. Len(plates) :
                  SquaredDistance(plates[k], p) >= SquaredDistance(plates[i], p)

----------------------------------------------------------------------------
(* RiverGenerator::generate_rivers on its own: a step finds the sources, a   *)
(* step traces the river of the next source.  The grids have an elevation    *)
(* and a rainfall per column, and rows that rise by a tilt.                  *)

ColumnElevations == {0, 200, 1500, 1800}
Tilts == {0, 500}
ColumnRainfalls == {2000, 8000}
HashKeys == {0, 1}

\* the grid of that relief and rainfall, with its temperatures, its lowest
\* cells made water and its land classified
RiverGrid(elev, tilt, rain) ==
    classify_biomes(assign_water_bodies(calculate_temperature(
        [p \in Pos |->
            [InitialCell EXCEPT !.elevation = elev[p[1]] + p[2] * tilt,
                                !.rainfall = rain[p[1]]]]), 0))

RiverGrids ==
    {RiverGrid(elev, tilt, rain) :
        elev \in [0 .. W - 1 -> ColumnElevations], tilt \in Tilts,
        rain \in {r \in [0 .. W - 1 -> ColumnRainfalls] :
                     Cardinality({x \in 0 .. W - 1 : r[x] = 2000}) <= 1}}

InitRivers ==
    /\ wp = 0
    /\ rng = <<>>
    /\ noise = <<>>
    /\ hashKey \in HashKeys
    /\ plates = <<>>
    /\ cells \in RiverGrids
    /\ sources = <<>>
    /\ pc = "find_river_sources"
    /\ cells2 = <<>>
    /\ dims = [width |-> W, height |-> H]
    /\ overflow_checks = TRUE
    /\ trace = <<>>

\* let sources = self.find_river_sources(cells);
FindRiverSources ==
    /\ pc = "find_river_sources"
    /\ sources' = find_river_sources(cells)
    /\ pc' = "trace_river"
    /\ UNCHANGED <<inputs, trace, plates, cells, cells2>>

\* for source in sources { self.trace_river(source.0, source.1, cells); }
TraceRiver ==
    /\ pc = "trace_river"
    /\ sources # <<>>
    /\ cells' = trace_river(hashKey, Head(sources), cells)
    /\ cells2' = IF cells2 = <<>> THEN <<>>
                 ELSE trace_river(hashKey, Head(sources), cells2)
    /\ sources' = Tail(sources)
    /\ UNCHANGED <<inputs, trace, plates, pc>>

RiversTraced ==
    /\ pc = "trace_river"
    /\ sources = <<>>
    /\ pc' = "done"
    /\ UNCHANGED <<inputs, trace, plates, cells, sources, cells2>>

NextRivers == FindRiverSources \/ TraceRiver \/ RiversTraced

SpecRivers == InitRivers /\ [][NextRivers]_vars

\* C3: a cell with has_river has biome River, and once has_river is true it
\* stays true: through every later trace of the run the cell is a River cell
RiverPersistence ==
    /\ [](\A p \in Pos : cells[p].has_river => cells[p].biome = "River")
    /\ [][\A p \in Pos : cells[p].has_river => cells'[p].has_river]_vars

\* a river is traced and the source to trace next has a lower 8-neighbour
\* that is a river cell already
RiverBelowNextSource ==
    /\ pc = "trace_river"
    /\ sources # <<>>
    /\ LET src == Head(sources)
           ns == Neighbors8(src[1], src[2])
       IN  \E i \in 1 .. Len(ns) :
               /\ cells[ns[i]].has_river
               /\ cells[ns[i]].elevation < cells[src].elevation

\* a source as C7 has it: above the thresholds of find_river_sources and no
\* lower than any of its 8-neighbours
IsLocalMaximumSource(p) ==
    /\ cells[p].elevation > 1000
    /\ cells[p].rainfall > 6000
    /\ LET ns == Neighbors8(p[1], p[2])
       IN  \A i \in 1 .. Len(ns) : cells[ns[i]].elevation <= cells[p].elevation

\* the cells that paths of 8-adjacent cells of non-increasing elevation
\* reach from the cells of S
RECURSIVE Downhill(_)
Downhill(S) ==
    LET more == {q \in Pos \ S : \E p \in S :
                    /\ Abs(q[1] - p[1]) <= 1
                    /\ Abs(q[2] - p[2]) <= 1
                    /\ cells[q].elevation <= cells[p].elevation}
    IN  IF more = {} THEN S ELSE Downhill(S \cup more)

\* C7: in the final grid every river cell is reached by a path of 8-adjacent
\* cells of non-increasing elevation from a local-maximum source above the
\* source thresholds
RiversFromLocalMaxima ==
    Final =>
        \A p \in Pos :
            cells[p].has_river
                => p \in Downhill({q \in Pos : IsLocalMaximumSource(q)})

----------------------------------------------------------------------------
(* BiomeAssigner::assign_biomes on its own, invoked on a grid that a river   *)
(* stage has left with river cells                                           *)

InitBiomes ==
    /\ wp = 0
    /\ rng = <<>>
    /\ noise = <<>>
    /\ hashKey \in HashKeys
    /\ plates = <<>>
    /\ cells \in {generate_rivers(hashKey, g) : g \in RiverGrids}
    /\ \E p \in Pos : cells[p].has_river
    /\ sources = <<>>
    /\ pc = "classify_biomes"
    /\ cells2 = <<>>
    /\ dims = [width |-> W, height |-> H]
    /\ overflow_checks = TRUE
    /\ trace = <<>>

NextBiomes ==
    \/ ClassifyBiomes
    \/ SmoothBiomeTransitions
    \/ AddBeaches
    \/ EnhanceCoastalFeatures

SpecBiomes == InitBiomes /\ [][NextBiomes]_vars

\* C4: no pass of assign_biomes (base classification, smoothing, add_beaches,
\* enhance_coastal_features) changes the biome of a non-water cell that has
\* has_river = true
RiverBiomeKept ==
    [][\A p \in Pos :
          (cells[p].has_river /\ ~cells[p].is_water)
              => cells'[p].biome = cells[p].biome]_vars

----------------------------------------------------------------------------
(* Two runs of generate() on the same inputs, followed side by side *)

InitTwoRuns ==
    /\ wp \in WaterPercentages
    /\ rng \in GenDraws
    /\ noise \in NoiseFields
    /\ hashKey = 0
    /\ plates = <<>>
    /\ cells = InitialCells
    /\ sources = <<>>
    /\ pc = "generate_plates"
    /\ cells2 = InitialCells
    /\ dims = [width |-> W, height |-> H]
    /\ overflow_checks = TRUE
    /\ trace = <<>>

SpecTwoRuns == InitTwoRuns /\ [][Next]_vars

\* C1: two runs of generate() on the same width, height, water_percentage
\* and seed return the same grid (the plate list is the one list drawn from
\* the seed in both)
SameGridInBothRuns == Final => cells2 = cells

----------------------------------------------------------------------------
(* The stages of generate() on a grid of any size.  Only the dimensions   *)
(* are followed here: what each stage computes from width and height      *)
(* before and while it walks the grid (the clamp bounds of generate_plates,*)
(* the bounds of the interior loops, the first indexings), and whether    *)
(* that completes.                                                        *)

\* f32::clamp(min, max) panics when min > max
clamp_panics(min, max) == min > max

\* gen_range(low..high) panics on an empty range
gen_range_panics(low, high) == low >= high

\* generate_plates: a continental center is clamped to
\* [50, width - 50] x [50, height - 50]; the other centers are drawn from
\* 0.0..width and 0.0..height.  Every run places at least two continental
\* plates and at least three others (count is 6..9).
generate_plates_outcome(d) ==
    IF \/ clamp_panics(50, d.width - 50)
       \/ clamp_panics(50, d.height - 50)
       \/ gen_range_panics(0, d.width)
       \/ gen_range_panics(0, d.height)
    THEN "panic"
    ELSE "ok"

\* n - 1 in an unsigned type: below zero the subtraction overflows
MinusOne(n) ==
    IF n >= 1 THEN [overflow |-> FALSE, value |-> n - 1]
              ELSE [overflow |-> TRUE, value |-> 0]

\* for y in 1..height - 1 { for x in 1..width - 1 { cells[y][x] ... } }
\* on a grid of height rows of width cells.  An overflowing bound panics
\* where overflow is checked and wraps to the largest value of the type
\* otherwise; the wrapped range then starts at row or column 1 of a grid
\* that has none.  wide: the bounds are usize (64 bits), so that a wrapped
\* outer range over an empty inner one does not end.
interior_scan_outcome(d, checked, wide) ==
    LET yb == MinusOne(d.height)
        xb == MinusOne(d.width)
        rows == yb.overflow \/ 1 < yb.value
        columns == xb.overflow \/ 1 < xb.value
    IN  IF yb.overflow /\ checked THEN "panic"
        ELSE IF ~rows THEN "ok"
        ELSE IF xb.overflow /\ checked THEN "panic"
        ELSE IF ~columns THEN (IF yb.overflow /\ wide THEN "hang" ELSE "ok")
        ELSE IF yb.overflow \/ xb.overflow THEN "panic"
        ELSE "ok"

\* assign_water_bodies: elevations[index.min(elevations.len() - 1)]; on an
\* empty grid the subtraction overflows, and where it wraps the index 0 is
\* outside the empty vector
assign_water_bodies_outcome(d, checked) ==
    LET last == MinusOne(d.width * d.height)
    IN  IF last.overflow THEN "panic" ELSE "ok"

\* let width = cells[0].len(): panics on a grid without rows
first_row_outcome(d) == IF d.height = 0 THEN "panic" ELSE "ok"

\* smooth_biome_transitions: cells[0], then the interior loops in usize
smooth_biome_transitions_outcome(d, checked) ==
    IF first_row_outcome(d) = "panic" THEN "panic"
    ELSE interior_scan_outcome(d, checked, TRUE)

SizedStages ==
    {"generate_plates", "assign_plate_ownership",
     "simulate_plate_interactions", "generate_base_elevation",
     "add_mountain_ranges", "simulate_climate", "assign_water_bodies",
     "classify_biomes", "smooth_biome_transitions", "add_beaches",
     "enhance_coastal_features", "find_river_sources"}

\* the stages that walk the interior or index by a computed bound
ScanStages ==
    {"simulate_plate_interactions", "add_mountain_ranges",
     "assign_water_bodies", "smooth_biome_transitions",
     "find_river_sources"}

\* where control is after a stage
After(stage, next, outcome) ==
    IF outcome = "ok" THEN next ELSE outcome \o " in " \o stage

Faulted(stages) ==
    {outcome \o " in " \o stage : outcome \in {"panic", "hang"},
                                  stage \in stages}

Dimensions == {0, 1, 2, 3, 10, 99, 100, 101}

SizedGeneratePlates ==
    /\ pc = "generate_plates"
    /\ pc' = After("generate_plates", "assign_plate_ownership",
                   generate_plates_outcome(dims))
    /\ UNCHANGED <<inputs, trace, plates, cells, sources, cells2>>

SizedAssignPlateOwnership ==
    /\ pc = "assign_plate_ownership"
    /\ pc' = "simulate_plate_interactions"
    /\ UNCHANGED <<inputs, trace, plates, cells, sources, cells2>>

SizedSimulatePlateInteractions ==
    /\ pc = "simulate_plate_interactions"
    /\ pc' = After("simulate_plate_interactions", "generate_base_elevation",
                   interior_scan_outcome(dims, overflow_checks, FALSE))
    /\ UNCHANGED <<inputs, trace, plates, cells, sources, cells2>>

SizedGenerateBaseElevation ==
    /\ pc = "generate_base_elevation"
    /\ pc' = "add_mountain_ranges"
    /\ UNCHANGED <<inputs, trace, plates, cells, sources, cells2>>

SizedAddMountainRanges ==
    /\ pc = "add_mountain_ranges"
    /\ pc' = After("add_mountain_ranges", "simulate_climate",
                   interior_scan_outcome(dims, overflow_checks, FALSE))
    /\ UNCHANGED <<inputs, trace, plates, cells, sources, cells2>>

SizedSimulateClimate ==
    /\ pc = "simulate_climate"
    /\ pc' = "assign_water_bodies"
    /\ UNCHANGED <<inputs, trace, plates, cells, sources, cells2>>

SizedAssignWaterBodies ==
    /\ pc = "assign_water_bodies"
    /\ pc' = After("assign_water_bodies", "classify_biomes",
                   assign_water_bodies_outcome(dims, overflow_checks))
    /\ UNCHANGED <<inputs, trace, plates, cells, sources, cells2>>

SizedClassifyBiomes ==
    /\ pc = "classify_biomes"
    /\ pc' = "smooth_biome_transitions"
    /\ UNCHANGED <<inputs, trace, plates, cells, sources, cells2>>

SizedSmoothBiomeTransitions ==
    /\ pc = "smooth_biome_transitions"
    /\ pc' = After("smooth_biome_transitions", "add_beaches",
                   smooth_biome_transitions_outcome(dims, overflow_checks))
    /\ UNCHANGED <<inputs, trace, plates, cells, sources, cells2>>

SizedAddBeaches ==
    /\ pc = "add_beaches"
    /\ pc' = After("add_beaches", "enhance_coastal_features",
                   first_row_outcome(dims))
    /\ UNCHANGED <<inputs, trace, plates, cells, sources, cells2>>

SizedEnhanceCoastalFeatures ==
    /\ pc = "enhance_coastal_features"
    /\ pc' = After("enhance_coastal_features", "find_river_sources",
                   first_row_outcome(dims))
    /\ UNCHANGED <<inputs, trace, plates, cells, sources, cells2>>

SizedFindRiverSources ==
    /\ pc = "find_river_sources"
    /\ pc' = After("find_river_sources", "done",
                   interior_scan_outcome(dims, overflow_checks, TRUE))
    /\ UNCHANGED <<inputs, trace, plates, cells, sources, cells2>>

NextSizes ==
    \/ SizedGeneratePlates
    \/ SizedAssignPlateOwnership
    \/ SizedSimulatePlateInteractions
    \/ SizedGenerateBaseElevation
    \/ SizedAddMountainRanges
    \/ SizedSimulateClimate
    \/ SizedAssignWaterBodies
    \/ SizedClassifyBiomes
    \/ SizedSmoothBiomeTransitions
    \/ SizedAddBeaches
    \/ SizedEnhanceCoastalFeatures
    \/ SizedFindRiverSources

InitSized ==
    /\ wp \in WaterPercentages
    /\ rng = <<>>
    /\ noise = <<>>
    /\ hashKey = 0
    /\ plates = <<>>
    /\ cells = <<>>
    /\ sources = <<>>
    /\ cells2 = <<>>
    /\ dims \in [width : Dimensions, height : Dimensions]
    /\ overflow_checks \in BOOLEAN
    /\ trace = <<>>

\* generate() from its first stage
InitSizes == InitSized /\ pc = "generate_plates"

SpecSizes == InitSizes /\ [][NextSizes]_vars

\* C11: on every grid of width and height 2 or more, for every
\* water_percentage, no stage of generate() faults
GenerateCompletes ==
    (dims.width >= 2 /\ dims.height >= 2) => pc \notin Faulted(SizedStages)

\* each stage entered on its own, on a grid of the given dimensions
InitStages == InitSized /\ pc \in SizedStages

SpecStages == InitStages /\ [][NextSizes]_vars

\* C12: on a grid of width or height 0 or 1, none of the neighbor-scanning
\* loops and no thresholding overflows a loop bound or indexes outside the
\* grid
DegenerateGridsScanned ==
    (dims.width <= 1 \/ dims.height <= 1) => pc \notin Faulted(ScanStages)

----------------------------------------------------------------------------
(* The fields each stage writes: generate() on the scaled grid, and the   *)
(* river stage on grids that have sources                                 *)

InitFrames == (Init /\ wp = 50) \/ InitRivers

NextFrames == Next \/ NextRivers

SpecFrames == InitFrames /\ [][NextFrames]_vars

BiomeStage ==
    pc \in {"classify_biomes", "smooth_biome_transitions", "add_beaches",
            "enhance_coastal_features"}

RiverStage == pc \in {"generate_rivers", "find_river_sources", "trace_river"}

SameClimateAndRelief(p) ==
    /\ cells'[p].elevation = cells[p].elevation
    /\ cells'[p].temperature = cells[p].temperature
    /\ cells'[p].rainfall = cells[p].rainfall
    /\ cells'[p].is_water = cells[p].is_water

\* C13: is_water changes only in assign_water_bodies and only from false to
\* true; plate_id does not change after assign_plate_ownership; the biome
\* stage leaves elevation, temperature, rainfall, is_water and has_river as
\* they are; the river stage leaves elevation, temperature, rainfall and
\* is_water as they are
StageFrames ==
    [][\A p \in Pos :
          /\ cells'[p].is_water # cells[p].is_water
                 => (pc = "assign_water_bodies" /\ cells'[p].is_water)
          /\ pc \notin {"generate_plates", "assign_plate_ownership"}
                 => cells'[p].plate_id = cells[p].plate_id
          /\ BiomeStage
                 => (SameClimateAndRelief(p)
                     /\ cells'[p].has_river = cells[p].has_river)
          /\ RiverStage => SameClimateAndRelief(p)]_vars

\* a finished run of generate() in which ownership, relief, thresholding
\* and the biome passes have all written to the grid
EveryStageWrote ==
    /\ pc = "done"
    /\ plates # <<>>
    /\ \E p \in Pos : cells[p].plate_id # 0
    /\ \E p \in Pos : cells[p].is_water
    /\ \E p \in Pos : ~cells[p].is_water /\ cells[p].elevation > 0
    /\ \E p \in Pos : cells[p].biome = "Beach"

----------------------------------------------------------------------------
(* Elevation left by the plate stage (SpecPlates) *)

AfterPlateStage == plates # <<>> /\ pc = "calculate_temperature"

OnPlateBoundary(p) ==
    \E i \in 1 .. 4 : Neighbors4(cells, p[1], p[2])[i] # cells[p].plate_id

\* the elevation of cell p when nothing of the plate stage is lost: the
\* base-noise elevation, the interaction strengths towards its 4 neighbors
\* and the mountain boosts
AccumulatedElevation(p) ==
    generate_base_elevation(cells, noise)[p].elevation
    + SumInteractions(plates, cells[p].plate_id,
                      Neighbors4(cells, p[1], p[2]), 1)
    + (add_mountain_ranges(cells, plates, noise)[p].elevation
       - cells[p].elevation)

\* C14: after the plate stage an interior cell with a 4-neighbor on another
\* plate has the boundary-interaction contribution in its elevation, on top
\* of the base-noise elevation
BoundaryInteractionKept ==
    AfterPlateStage =>
        \A p \in Interior :
            OnPlateBoundary(p) => cells[p].elevation = AccumulatedElevation(p)

----------------------------------------------------------------------------
(* Wind advection in a run of generate() (Spec) *)

\* the cell the wind of row p[2] reaches p from
Upwind(p) == <<p[1] - wind_direction(p[2]), p[2]>>

\* the rainfall the wind pass of this run left at p: the pass runs on the
\* grid the plate stage and calculate_temperature leave, where rainfall
\* is still 0.0 everywhere
WindAdvection(p) ==
    simulate_prevailing_winds(
        calculate_temperature(
            simulate_plates(InitialCells, rng, noise)))[p].rainfall

\* C15: in a run of generate(), a land cell immediately downwind of a water
\* cell has received a positive rainfall contribution from the wind pass
DownwindOfWaterWetted ==
    Final =>
        \A p \in Pos :
            (/\ ~cells[p].is_water
             /\ Upwind(p) \in Pos
             /\ cells[Upwind(p)].is_water)
                => WindAdvection(p) > 0

----------------------------------------------------------------------------
(* ClimateSimulator::simulate on grids that have water *)

\* sea floor, plain and highland
ColumnReliefs == {0, 400, 1200}

\* a grid of the given elevation per column, its lowest cells made water,
\* rainfall still 0.0
ClimateGrid(elev) ==
    assign_water_bodies(
        [p \in Pos |-> [InitialCell EXCEPT !.elevation = elev[p[1]]]], 0)

ClimateGrids ==
    {ClimateGrid(elev) : elev \in [0 .. W - 1 -> ColumnReliefs]}

InitClimate ==
    /\ wp = 0
    /\ rng = <<>>
    /\ noise = <<>>
    /\ hashKey = 0
    /\ plates = <<>>
    /\ cells \in ClimateGrids
    /\ sources = <<>>
    /\ pc = "calculate_temperature"
    /\ cells2 = <<>>
    /\ dims = [width |-> W, height |-> H]
    /\ overflow_checks = TRUE
    /\ trace = <<>>

NextClimate ==
    \/ CalculateTemperature
    \/ SimulatePrevailingWinds
    \/ CalculateRainfall
    \/ ApplyRainShadows

SpecClimate == InitClimate /\ [][NextClimate]_vars

AfterWindPass == pc = "calculate_rainfall"

\* the cell n steps downwind of p in its row
Downwind(p, n) == <<p[1] + n * wind_direction(p[2]), p[2]>>

\* C16: in every row, whichever way its wind blows, the moisture of a water
\* cell is carried more than one cell downwind by the wind pass: the second
\* land cell downwind of it has received rainfall
MoistureCarriedTwoCells ==
    AfterWindPass =>
        \A p \in Pos :
            (/\ cells[p].is_water
             /\ Downwind(p, 1) \in Pos /\ ~cells[Downwind(p, 1)].is_water
             /\ Downwind(p, 2) \in Pos /\ ~cells[Downwind(p, 2)].is_water)
                => cells[Downwind(p, 2)].rainfall > 0

----------------------------------------------------------------------------
(* RiverGenerator::generate_rivers, one step per iteration of the loop of *)
(* trace_river                                                             *)

\* an entry that starts the trace as a trickle, below the marking threshold
BeginTraceTrickle ==
    /\ pc = "trace_river"
    /\ sources # <<>>
    /\ trace' = [current |-> Head(sources), visited |-> {},
                 flow_volume |-> 400, running |-> TRUE]
    /\ sources' = Tail(sources)
    /\ pc' = "trace_loop"
    /\ UNCHANGED <<inputs, plates, cells, cells2>>

\* self.trace_river(source.0, source.1, cells): entry, flow_volume = 1.0
BeginTrace ==
    /\ pc = "trace_river"
    /\ sources # <<>>
    /\ trace' = [current |-> Head(sources), visited |-> {},
                 flow_volume |-> 1000, running |-> TRUE]
    /\ sources' = Tail(sources)
    /\ pc' = "trace_loop"
    /\ UNCHANGED <<inputs, plates, cells, cells2>>

\* one iteration of the loop
TraceStep ==
    /\ pc = "trace_loop"
    /\ trace.running
    /\ \E t \in {TraceIteration(hashKey,
                    [cells |-> cells, current |-> trace.current,
                     visited |-> trace.visited,
                     flow_volume |-> trace.flow_volume, running |-> TRUE])} :
           /\ cells' = t.cells
           /\ trace' = [current |-> t.current, visited |-> t.visited,
                        flow_volume |-> t.flow_volume, running |-> t.running]
    /\ UNCHANGED <<inputs, plates, sources, pc, cells2>>

\* the loop is left and trace_river returns
EndTrace ==
    /\ pc = "trace_loop"
    /\ ~trace.running
    /\ trace' = <<>>
    /\ pc' = "trace_river"
    /\ UNCHANGED <<inputs, plates, cells, sources, cells2>>

NextTrace ==
    \/ FindRiverSources
    \/ BeginTrace
    \/ TraceStep
    \/ EndTrace
    \/ RiversTraced

SpecTrace == InitRivers /\ [][NextTrace]_vars

\* the grids that are wet in every column, traced with one hasher
InitWetRivers ==
    /\ InitRivers
    /\ hashKey = 0
    /\ \A p \in Pos : cells[p].rainfall > 6000

\* generate_rivers is straight-line code: it keeps taking steps
SpecTraceFair == InitWetRivers /\ [][NextTrace]_vars /\ WF_vars(NextTrace)

NeighborCells(p) ==
    {Neighbors8(p[1], p[2])[i] : i \in 1 .. Len(Neighbors8(p[1], p[2]))}

NoLowerNeighbor(p) ==
    \A n \in NeighborCells(p) : cells[n].elevation >= cells[p].elevation

IterationTaken == pc = "trace_loop" /\ pc' = "trace_loop"

\* C17: generate_rivers terminates; every iteration of a trace that moves,
\* moves to a cell of strictly lower elevation, and never stands on a cell
\* the trace has visited; a trace ends only on a water cell, on a cell with
\* no strictly lower neighbor, or with more than 2000 cells visited
TracesTerminate ==
    /\ <>(pc = "done")
    /\ [][IterationTaken =>
             /\ trace.current \notin trace.visited
             /\ trace'.current # trace.current
                    => cells[trace'.current].elevation
                           < cells[trace.current].elevation
             /\ ~trace'.running
                    => \/ cells[trace.current].is_water
                       \/ NoLowerNeighbor(trace.current)
                       \/ Cardinality(trace'.visited) > MaxVisited]_vars

\* a trace that ran over two cells or more and ended on land, in a hollow
TraceEndedInHollow ==
    /\ pc = "trace_loop"
    /\ ~trace.running
    /\ Cardinality(trace.visited) >= 2
    /\ ~cells[trace.current].is_water
    /\ NoLowerNeighbor(trace.current)

\* C18: an iteration with flow volume of 2.0 or less (no meander) moves to
\* the lowest of the 8 neighbors, diagonal or not
StepsToLowestNeighbor ==
    [][(/\ IterationTaken
        /\ trace'.current # trace.current
        /\ trace'.flow_volume <= 2000)
           => \A n \in NeighborCells(trace.current) :
                  cells[trace'.current].elevation <= cells[n].elevation]_vars

----------------------------------------------------------------------------
(* The sources find_river_sources returns (SpecRivers) *)

\* a land cell above the source thresholds that none of its in-bounds
\* 8-neighbors exceeds in elevation
IsLandLocalMaximum(p) == ~cells[p].is_water /\ IsLocalMaximumSource(p)

\* C19: find_river_sources selects exactly the land cells with elevation
\* above 1.0 and rainfall above 6.0 that are local elevation maxima, and
\* returns them in row-major order
SourcesAreLocalMaxima ==
    [][pc = "find_river_sources"
           => sources' = SelectSeq(RowMajor, LAMBDA p : IsLandLocalMaximum(p))]_vars

----------------------------------------------------------------------------
(* The smoothing pass of assign_biomes (SpecBiomes) *)

SmoothingPass == pc = "smooth_biome_transitions"

\* the neighbors of p whose biome, before the pass, is b
NeighborsOfBiome(p, b) == {n \in NeighborCells(p) : cells[n].biome = b}

\* the neighbors of p whose biome, before the pass, is neither Ocean nor
\* the biome of p
DifferingNeighbors(p) ==
    {n \in NeighborCells(p) : cells[n].biome \notin {"Ocean", cells[p].biome}}

\* the non-Ocean biomes most frequent among the neighbors of p before the
\* pass
MostFrequentNeighborBiomes(p) ==
    {b \in BiomeType \ {"Ocean"} :
        /\ NeighborsOfBiome(p, b) # {}
        /\ \A c \in BiomeType \ {"Ocean"} :
               Cardinality(NeighborsOfBiome(p, c))
                   <= Cardinality(NeighborsOfBiome(p, b))}

\* C20: smoothing is one pass over the biomes as they were before it: an
\* interior land cell without river that has 4 or more neighbors of a
\* non-Ocean biome other than its own takes a most frequent non-Ocean biome
\* of its neighbors; every other cell (border, water, river, or with fewer
\* such neighbors) keeps its biome; no cell is made Ocean
SnapshotSmoothing ==
    [][SmoothingPass =>
          \A p \in Pos :
              /\ cells'[p].biome = "Ocean" => cells[p].biome = "Ocean"
              /\ IF /\ p \in Interior
                    /\ ~cells[p].is_water
                    /\ ~cells[p].has_river
                    /\ Cardinality(DifferingNeighbors(p)) >= 4
                 THEN cells'[p].biome \in MostFrequentNeighborBiomes(p)
                 ELSE cells'[p].biome = cells[p].biome]_vars

\* smoothing has replaced the biome of an interior land cell, next to an
\* interior river cell that kept its own
SmoothedBesideRiver ==
    /\ pc = "add_beaches"
    /\ \E p \in Interior :
           /\ ~cells[p].is_water
           /\ ~cells[p].has_river
           /\ cells[p].biome # determine_biome(cells[p])
           /\ \E q \in NeighborCells(p) \cap Interior :
                  /\ cells[q].has_river
                  /\ cells[q].biome = determine_biome(cells[q])

----------------------------------------------------------------------------
(* Flow volume and marking along a trace (SpecTrace) *)

InTrace == pc = "trace_loop"

Marked(cs, p) == cs[p].has_river /\ cs[p].biome = "River"

\* C21: the flow volume of a trace is never below its start of 1.0 and
\* never decreases; every iteration that runs on a land cell leaves that
\* cell with has_river set and biome River, the source included, and no
\* land cell a trace has visited is left unmarked
FlowNeverSuppressesMarking ==
    /\ [](InTrace =>
             /\ trace.flow_volume >= 1000
             /\ \A p \in trace.visited : ~cells[p].is_water => Marked(cells, p))
    /\ [][IterationTaken =>
             /\ trace'.flow_volume >= trace.flow_volume
             /\ ~cells[trace.current].is_water
                    => (/\ Marked(cells', trace.current)
                        /\ trace.current \in trace'.visited)]_vars

\* a trace that ran from its source over another land cell into water, the
\* land cells marked and the water cell not
TraceMarkedToWater ==
    /\ InTrace
    /\ ~trace.running
    /\ cells[trace.current].is_water
    /\ ~cells[trace.current].has_river
    /\ Cardinality({p \in trace.visited : Marked(cells, p)}) >= 2

====
